---- MODULE Spec2Model ----
(***************************************************************************)
(* A TLA+ model of pretzelryan/wordleFilter: the WordleGuess constructor   *)
(* (wordle_filter/WordleGuess.py), the Word constructor                    *)
(* (wordle_filter/Word.py), the WordleFilter session                       *)
(* (wordle_filter/WordleFilter.py) and the heuristic scorer                *)
(* (wordle_filter/WordleScorer.py).                                        *)
(*                                                                         *)
(* Python values are records tagged with their class.  A word string is a *)
(* sequence of one-letter strings; Python's 0-based subscript s[i] is      *)
(* s[i + 1] here, and the index lists of location_dict keep the 0-based    *)
(* indices of the source.                                                  *)
(*                                                                         *)
(* WordleFilter._filter_word_list subscripts the guess's word              *)
(* (guess.word[i], WordleFilter.py lines 206, 215, 219, 229) while         *)
(* WordleGuess.__init__ admits only instances of Word (WordleGuess.py line *)
(* 42).  The class Word defines no __getitem__ (Word.py lines 18-156), so  *)
(* with a plain Word the subscript raises TypeError; with an instance of a *)
(* subclass of Word that supports the subscript it yields the i-th letter. *)
(* The field getitem of a Word record says which of the two the object is. *)
(***************************************************************************)
EXTENDS Integers, Sequences, FiniteSets, TLC

VARIABLES remaining_word_list,  \* WordleFilter.remaining_word_list
          guess_list,           \* WordleFilter.guess_list
          raised,               \* the exception the last call raised, or "none"
          result,               \* the object the last constructor call returned
          call,                 \* the last call: its operation, its arguments,
                                \* and n, the number of calls made so far
          target,               \* the game's hidden word (SpecGame only)
          word_list             \* the list of Word objects that the caller
                                \* of WordleScorer holds (SpecScore only)

vars == <<remaining_word_list, guess_list, raised, result, call, target,
          word_list>>

----------------------------------------------------------------------------
(* Data *)

LETTERS_IN_WORD == 5

\* The bound on the number of add_guess calls of one behaviour.
MaxGuesses == 3

GREEN == "GREEN"
YELLOW == "YELLOW"
GREY == "GREY"
LetterColor == {GREEN, YELLOW, GREY}

None == [type |-> "NoneType"]

\* The content of word_list.csv: a sample of the word list, in file order.
WORD_LIST ==
    << <<"s","h","a","r","k">>, <<"s","i","l","l","y">>,
       <<"s","n","o","o","p">>, <<"s","t","o","i","c">>,
       <<"s","h","o","o","t">>, <<"r","o","o","m","y">>,
       <<"r","o","c","k","y">>, <<"o","x","i","d","e">> >>

Range(s) == {s[k] : k \in DOMAIN s}

\* Python's range(n) as the sequence <<0, ..., n-1>>.
PyRange(n) == [k \in 1..n |-> k - 1]

\* Python's s[i] on a sequence, 0-based.
Item(s, i) == s[i + 1]

\* str.count(x) for a one-letter x.
Count(s, x) == Cardinality({k \in DOMAIN s : s[k] = x})

\* A Python int.
PyInt(n) == [type |-> "int", value |-> n]

\* A Python str.
PyStr(s) == [type |-> "str", string |-> s, getitem |-> TRUE]

----------------------------------------------------------------------------
(* Word.py *)

\* Word._set_string: the length check of the constructor.
Word_set_string(word_str) ==
    IF Len(word_str) # LETTERS_IN_WORD THEN "ValueError" ELSE "none"

\* Word.__init__(word, level, ...).  getitem: whether the instance's class
\* supports the subscript word[i] (class Word itself does not).
Word__init__(word_str, level, getitem) ==
    IF Word_set_string(word_str) # "none"
    THEN [raised |-> "ValueError", obj |-> None]
    ELSE [raised |-> "none",
          obj |-> [type |-> "Word", string |-> word_str, getitem |-> getitem,
                   level |-> level, score |-> 0]]

----------------------------------------------------------------------------
(* WordleGuess.py *)

\* Fault variant of LocationLoop: records the 1-based position i + 1.
RECURSIVE LocationLoopOneBased(_, _, _)
LocationLoopOneBased(color_list, i, location_dict) ==
    IF i >= Len(color_list) THEN location_dict
    ELSE LocationLoopOneBased(color_list, i + 1,
            [location_dict EXCEPT ![Item(color_list, i)] = Append(@, i + 1)])

\* The loop of _create_location_dict from index i on:
\* location_dict[color_list[i]].append(i).
RECURSIVE LocationLoop(_, _, _)
LocationLoop(color_list, i, location_dict) ==
    IF i >= Len(color_list) THEN location_dict
    ELSE LocationLoop(color_list, i + 1,
            [location_dict EXCEPT ![Item(color_list, i)] = Append(@, i)])

\* WordleGuess._create_location_dict
WordleGuess_create_location_dict(color_list) ==
    LocationLoop(color_list, 0, [c \in LetterColor |-> <<>>])

\* Fault variant of WordleGuess.__init__: no check of the color list's length.
WordleGuessInitNoLengthCheck(word, color_list) ==
    IF word.type # "Word" THEN [raised |-> "ValueError", obj |-> None]
    ELSE [raised |-> "none",
          obj |-> [type |-> "WordleGuess", word |-> word,
                   color_list |-> color_list,
                   location_dict |->
                       WordleGuess_create_location_dict(color_list)]]

\* WordleGuess.__init__(word, color_list)
WordleGuess__init__(word, color_list) ==
    IF word.type # "Word" THEN [raised |-> "ValueError", obj |-> None]
    ELSE IF Len(color_list) # LETTERS_IN_WORD
    THEN [raised |-> "ValueError", obj |-> None]
    ELSE [raised |-> "none",
          obj |-> [type |-> "WordleGuess", word |-> word,
                   color_list |-> color_list,
                   location_dict |->
                       WordleGuess_create_location_dict(color_list)]]

\* The guesses a caller can hand to add_guess: every WordleGuess that the
\* constructors build from a word of the list and five colors.
Words == {Word__init__(s, 0, b).obj : s \in Range(WORD_LIST), b \in BOOLEAN}
ColorLists == [1..LETTERS_IN_WORD -> LetterColor]
WordleGuesses == {WordleGuess__init__(w, cl).obj : w \in Words, cl \in ColorLists}

----------------------------------------------------------------------------
(* WordleFilter.py *)

\* Fault variant of list.remove: moves the last element into the place of the
\* first element equal to x (removal by swap with the last).
RECURSIVE ListRemoveBySwap(_, _)
ListRemoveBySwap(lst, x) ==
    IF lst = <<>> THEN <<>>
    ELSE IF Head(lst) = x
    THEN IF Len(lst) = 1 THEN <<>>
         ELSE <<lst[Len(lst)]>> \o SubSeq(lst, 2, Len(lst) - 1)
    ELSE <<Head(lst)>> \o ListRemoveBySwap(Tail(lst), x)

\* list.remove(x): drops the first element equal to x.
RECURSIVE ListRemove(_, _)
ListRemove(lst, x) ==
    IF lst = <<>> THEN <<>>
    ELSE IF Head(lst) = x THEN Tail(lst)
    ELSE <<Head(lst)>> \o ListRemove(Tail(lst), x)

\* The green loop (lines 205-208): the word lacks a green letter in position.
GreenRemoves(word, guess) ==
    \E k \in DOMAIN guess.location_dict[GREEN] :
        LET i == guess.location_dict[GREEN][k]
        IN  Item(word, i) # Item(guess.word.string, i)

\* The yellow loop (lines 213-221): the word lacks the yellow letter, or has
\* it at the yellow index.
YellowRemoves(word, guess) ==
    \E k \in DOMAIN guess.location_dict[YELLOW] :
        LET i == guess.location_dict[YELLOW][k]
        IN  \/ Item(guess.word.string, i) \notin Range(word)
            \/ Item(word, i) = Item(guess.word.string, i)

\* available_letters (line 227): the word's letters outside the green indexes.
AvailableLetters(word, guess) ==
    {Item(word, j) : j \in {j \in Range(PyRange(Len(word))) :
                               j \notin Range(guess.location_dict[GREEN])}}

\* The grey loop (lines 228-231): a grey letter is among the available letters.
GreyRemoves(word, guess) ==
    \E k \in DOMAIN guess.location_dict[GREY] :
        LET i == guess.location_dict[GREY][k]
        IN  Item(guess.word.string, i) \in AvailableLetters(word, guess)

\* The body of the for loop (lines 204-231) for one word: whether the word is
\* removed.  The three loops are chained by for/else.
WordRemoved(word, guess) ==
    IF GreenRemoves(word, guess) THEN TRUE
    ELSE IF YellowRemoves(word, guess) THEN TRUE
    ELSE GreyRemoves(word, guess)

\* Fault variant of the for loop: iterates over the list itself, not a copy,
\* so the word that follows a removed word is skipped.
RECURSIVE FilterLoopNoCopy(_, _, _, _)
FilterLoopNoCopy(copy, k, lst, guess) ==
    IF k > Len(lst) THEN lst
    ELSE FilterLoopNoCopy(copy, k + 1,
                          IF WordRemoved(lst[k], guess)
                          THEN ListRemove(lst, lst[k]) ELSE lst,
                          guess)

\* Whether a list.remove(word) of the for loop, from the k-th word of the copy
\* on, raises ValueError: the word is not in the list.
RECURSIVE FilterLoopRaises(_, _, _, _)
FilterLoopRaises(copy, k, lst, guess) ==
    IF k > Len(copy) THEN FALSE
    ELSE IF WordRemoved(copy[k], guess)
    THEN \/ copy[k] \notin Range(lst)
         \/ FilterLoopRaises(copy, k + 1, ListRemove(lst, copy[k]), guess)
    ELSE FilterLoopRaises(copy, k + 1, lst, guess)

\* The for loop over the copy of the list (line 203), from the k-th word on;
\* it ends where list.remove raises.
RECURSIVE FilterLoop(_, _, _, _)
FilterLoop(copy, k, lst, guess) ==
    IF k > Len(copy) THEN lst
    ELSE IF WordRemoved(copy[k], guess) /\ copy[k] \notin Range(lst) THEN lst
    ELSE FilterLoop(copy, k + 1,
                    IF WordRemoved(copy[k], guess)
                    THEN ListRemove(lst, copy[k]) ELSE lst,
                    guess)

\* WordleFilter._filter_word_list.  Every path through the loop body
\* evaluates guess.word[i] before any removal (each guess has five indexes in
\* its three lists), so a word that does not support the subscript raises
\* TypeError at the first word of a non-empty list.
WordleFilter_filter_word_list(lst, guess) ==
    IF lst # <<>> /\ ~guess.word.getitem
    THEN [raised |-> "TypeError", list |-> lst]
    ELSE [raised |-> IF FilterLoopRaises(lst, 1, lst, guess)
                     THEN "ValueError" ELSE "none",
          list |-> FilterLoop(lst, 1, lst, guess)]

\* Fault variant of add_guess: a guess already in the history is ignored.
add_guess_once(guess) ==
    LET r == WordleFilter_filter_word_list(remaining_word_list, guess)
        dup == \E k \in DOMAIN guess_list : guess_list[k] = guess
    IN  /\ guess_list' = IF dup THEN guess_list ELSE Append(guess_list, guess)
        /\ remaining_word_list' = IF dup THEN remaining_word_list ELSE r.list
        /\ raised' = IF dup THEN "none" ELSE r.raised
        /\ call' = [op |-> "add_guess", args |-> <<guess>>, n |-> call.n + 1]
        /\ UNCHANGED <<result, target, word_list>>

\* WordleFilter.add_guess
add_guess(guess) ==
    LET r == WordleFilter_filter_word_list(remaining_word_list, guess)
    IN  /\ guess_list' = Append(guess_list, guess)
        /\ remaining_word_list' = r.list
        /\ raised' = r.raised
        /\ call' = [op |-> "add_guess", args |-> <<guess>>, n |-> call.n + 1]
        /\ UNCHANGED <<result, target, word_list>>

----------------------------------------------------------------------------
(* WordleScorer.py *)

\* The default weights of _calculate_heuristic_score.
INDEX_WEIGHT == 5
OVERALL_WEIGHT == 1

\* The default band of _normalize_scores and of _clamp_integer.
NORMALIZE_MINIMUM == 0
NORMALIZE_MAXIMUM == 99
CLAMP_MINIMUM == 0
CLAMP_MAXIMUM == 99

ascii_lowercase ==
    {"a", "b", "c", "d", "e", "f", "g", "h", "i", "j", "k", "l", "m",
     "n", "o", "p", "q", "r", "s", "t", "u", "v", "w", "x", "y", "z"}

\* _create_letter_dict
WordleScorer_create_letter_dict == [letter \in ascii_lowercase |-> 0]

\* The loop of LetterTracker._add_indexed_letter_count from index on:
\* indexed_letter_counts[index][letter] += 1.
RECURSIVE AddIndexedLoop(_, _, _)
AddIndexedLoop(word_str, index, indexed_letter_counts) ==
    IF index >= Len(word_str) THEN indexed_letter_counts
    ELSE AddIndexedLoop(word_str, index + 1,
            [indexed_letter_counts
                EXCEPT ![index + 1][Item(word_str, index)] = @ + 1])

\* The loop of LetterTracker.__init__ (lines 34-35) from the k-th word on.
RECURSIVE TrackerWordLoop(_, _, _)
TrackerWordLoop(lst, k, indexed_letter_counts) ==
    IF k > Len(lst) THEN indexed_letter_counts
    ELSE TrackerWordLoop(lst, k + 1,
            AddIndexedLoop(lst[k].string, 0, indexed_letter_counts))

\* Fault variant of TotalLoop: the loop stops before the last index.
RECURSIVE TotalLoopSkipLast(_, _, _, _)
TotalLoopSkipLast(indexed_letter_counts, letter, index, total) ==
    IF index >= Len(indexed_letter_counts) - 1 THEN total
    ELSE TotalLoopSkipLast(indexed_letter_counts, letter, index + 1,
                           total + indexed_letter_counts[index + 1][letter])

\* The inner loop of LetterTracker._add_total_letter_count for one letter,
\* from index on: total_letter_counts[letter] += indexed[index][letter].
RECURSIVE TotalLoop(_, _, _, _)
TotalLoop(indexed_letter_counts, letter, index, total) ==
    IF index >= Len(indexed_letter_counts) THEN total
    ELSE TotalLoop(indexed_letter_counts, letter, index + 1,
                   total + indexed_letter_counts[index + 1][letter])

\* LetterTracker._add_total_letter_count
LetterTracker_add_total_letter_count(indexed_letter_counts) ==
    [letter \in ascii_lowercase |->
        TotalLoop(indexed_letter_counts, letter, 0,
                  WordleScorer_create_letter_dict[letter])]

\* LetterTracker.__init__(word_list, word_length).  A letter that is not a
\* key of the letter dict raises KeyError at line 52.
LetterTracker__init__(lst, word_length) ==
    IF \E k \in DOMAIN lst : ~(Range(lst[k].string) \subseteq ascii_lowercase)
    THEN [raised |-> "KeyError", obj |-> None]
    ELSE LET indexed == TrackerWordLoop(lst, 1,
                 [i \in 1..word_length |-> WordleScorer_create_letter_dict])
         IN  [raised |-> "none",
              obj |-> [type |-> "LetterTracker",
                       indexed_letter_counts |-> indexed,
                       total_letter_counts |->
                           LetterTracker_add_total_letter_count(indexed)]]

\* LetterTracker.get_letter_count(letter), index None: lines 79-80.
LetterTracker_get_letter_count(tracker, letter) ==
    tracker.total_letter_counts[letter]

\* LetterTracker.get_letter_count(letter, index): line 83.
LetterTracker_get_letter_count_at(tracker, letter, index) ==
    tracker.indexed_letter_counts[index + 1][letter]

\* _calculate_letter_frequency
WordleScorer_calculate_letter_frequency(lst) ==
    LetterTracker__init__(lst, LETTERS_IN_WORD)

\* Fault variant of HeuristicLoop: the overall count is added for every
\* position, also where the letter occurs more than once in the word.
RECURSIVE HeuristicLoopAlways(_, _, _, _, _, _)
HeuristicLoopAlways(word, tracker, index, new_score, index_weight, overall_weight) ==
    IF index >= LETTERS_IN_WORD THEN new_score
    ELSE LET letter == Item(word.string, index)
             index_count ==
                 LetterTracker_get_letter_count_at(tracker, letter, index)
             overall_count == LetterTracker_get_letter_count(tracker, letter)
         IN  HeuristicLoopAlways(word, tracker, index + 1,
                 new_score + index_count * index_weight
                           + overall_count * overall_weight,
                 index_weight, overall_weight)

\* The loop of _calculate_heuristic_score (lines 225-235) from index on.
RECURSIVE HeuristicLoop(_, _, _, _, _, _)
HeuristicLoop(word, tracker, index, new_score, index_weight, overall_weight) ==
    IF index >= LETTERS_IN_WORD THEN new_score
    ELSE LET letter == Item(word.string, index)
             index_count ==
                 LetterTracker_get_letter_count_at(tracker, letter, index)
             indexed_score == new_score + index_count * index_weight
             overall_count == LetterTracker_get_letter_count(tracker, letter)
         IN  HeuristicLoop(word, tracker, index + 1,
                 IF Count(word.string, letter) = 1
                 THEN indexed_score + overall_count * overall_weight
                 ELSE indexed_score,
                 index_weight, overall_weight)

\* _calculate_heuristic_score(word, tracker, index_weight, overall_weight):
\* the word with its new score.
WordleScorer_calculate_heuristic_score(word, tracker, index_weight, overall_weight) ==
    [word EXCEPT !.score = HeuristicLoop(word, tracker, 0, 0, index_weight,
                                         overall_weight)]

\* Python's round() of the number num / den, den > 0: the nearest integer,
\* and of two nearest integers the even one.
PyRound(num, den) ==
    LET q == num \div den
        r == num % den
    IN  IF 2 * r < den THEN q
        ELSE IF 2 * r > den THEN q + 1
        ELSE IF q % 2 = 0 THEN q ELSE q + 1

PyMin(a, b) == IF b < a THEN b ELSE a
PyMax(a, b) == IF b > a THEN b ELSE a

\* _clamp_integer(score, minimum, maximum) of the score num / den.
WordleScorer_clamp_integer(num, den, minimum, maximum) ==
    LET new_score == PyRound(num, den)
    IN  PyMax(minimum, PyMin(new_score, maximum))

\* min(word_list, key=get_score).get_score() and its max counterpart.
MinScore(lst) ==
    CHOOSE m \in {lst[k].score : k \in DOMAIN lst} :
        \A k \in DOMAIN lst : m <= lst[k].score
MaxScore(lst) ==
    CHOOSE m \in {lst[k].score : k \in DOMAIN lst} :
        \A k \in DOMAIN lst : m >= lst[k].score

\* _normalize_scores(word_list, minimum, maximum).  min() of an empty list
\* raises ValueError; the division of line 263 raises ZeroDivisionError at
\* the first word when the scores are all equal.  The scaled score
\*   ((old - min) / range) * target_range + min
\* is kept as the fraction ((old - min) * target_range + min * range) / range;
\* the float expression of the source rounds to the same integer whenever
\* min is 14 or more, and a scored word has a score of 25 or more.  The
\* words of the list are distinct objects.
WordleScorer_normalize_scores(lst, minimum, maximum) ==
    IF lst = <<>> THEN [raised |-> "ValueError", list |-> lst]
    ELSE LET existing_min_score == MinScore(lst)
             existing_max_score == MaxScore(lst)
             existing_range == existing_max_score - existing_min_score
             target_range == maximum - minimum
         IN  IF existing_range = 0
             THEN [raised |-> "ZeroDivisionError", list |-> lst]
             ELSE [raised |-> "none",
                   list |-> [k \in DOMAIN lst |->
                      [lst[k] EXCEPT !.score =
                          WordleScorer_clamp_integer(
                              (lst[k].score - existing_min_score)
                                  * target_range
                                + existing_min_score * existing_range,
                              existing_range,
                              CLAMP_MINIMUM, CLAMP_MAXIMUM)]]]

\* Fault variant of InsertByScore: the word goes behind the words of equal
\* score, so that words of equal score end up in reverse order.
RECURSIVE InsertByScoreAfterTies(_, _)
InsertByScoreAfterTies(word, sorted) ==
    IF sorted = <<>> THEN <<word>>
    ELSE IF Head(sorted).score >= word.score
    THEN <<Head(sorted)>> \o InsertByScoreAfterTies(word, Tail(sorted))
    ELSE <<word>> \o sorted

\* The place of a word in front of a sorted list of the words that followed
\* it: behind the words of higher score, before the words of equal or lower
\* score (list.sort is stable, also with reverse=True).
RECURSIVE InsertByScore(_, _)
InsertByScore(word, sorted) ==
    IF sorted = <<>> THEN <<word>>
    ELSE IF Head(sorted).score > word.score
    THEN <<Head(sorted)>> \o InsertByScore(word, Tail(sorted))
    ELSE <<word>> \o sorted

\* filter_level_zero_words: the new list of the comprehension.
WordleScorer_filter_level_zero_words(lst) ==
    LET LevelZero(word) == word.level = 0     \* word.get_level() == 0
    IN  SelectSeq(lst, LevelZero)

\* sort_word_list_by_score: word_list.sort(key=get_score, reverse=True)
RECURSIVE WordleScorer_sort_word_list_by_score(_)
WordleScorer_sort_word_list_by_score(lst) ==
    IF lst = <<>> THEN <<>>
    ELSE InsertByScore(Head(lst),
                       WordleScorer_sort_word_list_by_score(Tail(lst)))

\* _score_words_heuristic: the list as it is when the function returns or
\* raises.  The raw scores are set before _normalize_scores is called.
WordleScorer_score_words_heuristic(lst) ==
    LET t == WordleScorer_calculate_letter_frequency(lst)
    IN  IF t.raised # "none" THEN [raised |-> t.raised, list |-> lst]
        ELSE LET scored == [k \in DOMAIN lst |->
                     WordleScorer_calculate_heuristic_score(
                         lst[k], t.obj, INDEX_WEIGHT, OVERALL_WEIGHT)]
                 n == WordleScorer_normalize_scores(
                          scored, NORMALIZE_MINIMUM, NORMALIZE_MAXIMUM)
             IN  IF n.raised # "none"
                 THEN [raised |-> n.raised, list |-> n.list]
                 ELSE [raised |-> "none",
                       list |-> WordleScorer_sort_word_list_by_score(n.list)]

\* _score_words_entropy
WordleScorer_score_words_entropy(lst) ==
    [raised |-> "NotImplementedError", list |-> lst]

\* score_words(word_list, use_entropy)
WordleScorer_score_words(lst, use_entropy) ==
    IF use_entropy THEN WordleScorer_score_words_entropy(lst)
    ELSE WordleScorer_score_words_heuristic(lst)

----------------------------------------------------------------------------
(* WordleFilter.py: the best guess *)

POSITION_FREQUENCY_WEIGHT == 3
GENERAL_FREQUENCY_WEIGHT == 1

\* _initialize_letter_frequency_dict: a letter dict for each index of
\* range(5).
WordleFilter_initialize_letter_frequency_dict ==
    [i \in Range(PyRange(5)) |-> [letter \in ascii_lowercase |-> 0]]

\* The loop over the indexes of _calculate_letter_frequency (lines 91-92)
\* from index i on: letter_frequency[i][word[i]] += 1.
RECURSIVE FrequencyIndexLoop(_, _, _)
FrequencyIndexLoop(word, i, letter_frequency) ==
    IF i \notin DOMAIN letter_frequency THEN letter_frequency
    ELSE FrequencyIndexLoop(word, i + 1,
            [letter_frequency EXCEPT ![i][Item(word, i)] = @ + 1])

\* The loop over the words of _calculate_letter_frequency (lines 86-92) from
\* the k-th word on.  A letter that is no key of the dict raises KeyError.
RECURSIVE FrequencyWordLoop(_, _, _)
FrequencyWordLoop(lst, k, letter_frequency) ==
    IF k > Len(lst) THEN [raised |-> "none", obj |-> letter_frequency]
    ELSE IF Len(lst[k]) # LETTERS_IN_WORD
    THEN [raised |-> "ValueError", obj |-> None]
    ELSE IF ~(Range(lst[k]) \subseteq ascii_lowercase)
    THEN [raised |-> "KeyError", obj |-> None]
    ELSE FrequencyWordLoop(lst, k + 1,
                           FrequencyIndexLoop(lst[k], 0, letter_frequency))

\* _calculate_letter_frequency(word_list) of WordleFilter.py
WordleFilter_calculate_letter_frequency(lst) ==
    FrequencyWordLoop(lst, 1, WordleFilter_initialize_letter_frequency_dict)

\* The inner loop of _get_hash_score (lines 150-152) from index j on.
RECURSIVE GeneralScoreLoop(_, _, _, _, _, _)
GeneralScoreLoop(word, letter_frequency, i, letter, j, general_score) ==
    IF j >= Len(word) THEN general_score
    ELSE GeneralScoreLoop(word, letter_frequency, i, letter, j + 1,
            IF j # i
            THEN general_score
                 + letter_frequency[j][letter] * GENERAL_FREQUENCY_WEIGHT
            ELSE general_score)

\* The outer loop of _get_hash_score (lines 144-154) from index i on.
RECURSIVE HashScoreLoop(_, _, _, _)
HashScoreLoop(word, letter_frequency, i, score) ==
    IF i >= Len(word) THEN score
    ELSE LET letter == Item(word, i)
             position_score ==
                 letter_frequency[i][letter] * POSITION_FREQUENCY_WEIGHT
             general_score ==
                 GeneralScoreLoop(word, letter_frequency, i, letter, 0, 0)
         IN  HashScoreLoop(word, letter_frequency, i + 1,
                           score + (position_score + general_score))

\* _get_hash_score(word, letter_frequency)
WordleFilter_get_hash_score(word, letter_frequency) ==
    HashScoreLoop(word, letter_frequency, 0, 0)

\* The loop of _get_best_guess_hashing (lines 124-128) from the k-th word on.
RECURSIVE BestWordLoop(_, _, _, _, _)
BestWordLoop(lst, letter_frequency, k, best_word, best_score) ==
    IF k > Len(lst) THEN best_word
    ELSE LET score == WordleFilter_get_hash_score(lst[k], letter_frequency)
         IN  IF score > best_score
             THEN BestWordLoop(lst, letter_frequency, k + 1, lst[k], score)
             ELSE BestWordLoop(lst, letter_frequency, k + 1,
                               best_word, best_score)

\* _get_best_guess_hashing(word_list).  word_list[0] raises IndexError on an
\* empty list.
WordleFilter_get_best_guess_hashing(lst) ==
    LET f == WordleFilter_calculate_letter_frequency(lst)
    IN  IF f.raised # "none" THEN [raised |-> f.raised, obj |-> None]
        ELSE IF lst = <<>> THEN [raised |-> "IndexError", obj |-> None]
        ELSE [raised |-> "none",
              obj |-> PyStr(BestWordLoop(lst, f.obj, 1, Item(lst, 0), 0))]

\* WordleFilter.get_best_guess(hashing).  With hashing false the body ends
\* without a return statement: the call returns None.
WordleFilter_get_best_guess(hashing) ==
    IF hashing THEN WordleFilter_get_best_guess_hashing(remaining_word_list)
    ELSE [raised |-> "none", obj |-> None]

\* WordleFilter.get_remaining_words: the list object of the field itself.
WordleFilter_get_remaining_words ==
    [type |-> "list", ref |-> "self.remaining_word_list"]

----------------------------------------------------------------------------
(* Spec: one WordleFilter; the caller submits any guess, then resubmits *)
(* guesses of the history.                                               *)

\* WordleFilter.__init__
Init ==
    /\ remaining_word_list = WORD_LIST
    /\ guess_list = <<>>
    /\ raised = "none"
    /\ result = None
    /\ call = [op |-> "WordleFilter", args |-> <<>>, n |-> 0]
    /\ target = None
    /\ word_list = <<>>

\* add_guess of a guess not submitted before.
NewGuess ==
    /\ call.n = 0
    /\ \E g \in WordleGuesses : add_guess(g)

\* add_guess of a guess that is already in the history.
Resubmit ==
    /\ guess_list # <<>>
    /\ call.n < MaxGuesses
    /\ \E k \in DOMAIN guess_list : add_guess(guess_list[k])

Next == NewGuess \/ Resubmit

Spec == Init /\ [][Next]_vars

----------------------------------------------------------------------------
(* SpecGuess: the constructors of Word and WordleGuess on arguments of *)
(* length 4, 5 and 6.                                                   *)

ArgLens == {LETTERS_IN_WORD - 1, LETTERS_IN_WORD, LETTERS_IN_WORD + 1}

\* The word of test_guess_constructor_normal, in upper case.
RATIO == <<"R", "A", "T", "I", "O">>

\* Word strings of the three lengths: each word of the list, cut by a letter,
\* whole, and with a letter added; and the upper-case word of the test.
ArgStrings ==
    UNION {{SubSeq(w, 1, LETTERS_IN_WORD - 1), w, w \o <<"s">>} :
           w \in Range(WORD_LIST)}
        \cup {RATIO}

ArgColorLists == UNION {[1..n -> LetterColor] : n \in ArgLens}

\* The word arguments given to WordleGuess: the Word object the caller has
\* just built, and plain strings.
ArgWords ==
    (IF result.type = "Word" THEN {result} ELSE {})
        \cup {PyStr(s) : s \in ArgStrings}

\* Word(word_str, ...), of class Word or of a subclass with __getitem__.
WordInit ==
    /\ call.op = "WordleFilter"
    /\ \E s \in ArgStrings, getitem \in BOOLEAN :
          LET r == Word__init__(s, 0, getitem)
          IN  /\ raised' = r.raised
              /\ result' = r.obj
              /\ call' = [op |-> "Word", args |-> <<PyStr(s)>>,
                           n |-> call.n + 1]
              /\ UNCHANGED <<remaining_word_list, guess_list, target,
                             word_list>>

\* WordleGuess(word, color_list), on the Word just built or on a plain string.
WordleGuessInit ==
    /\ call.op \in {"WordleFilter", "Word"}
    /\ \E word \in ArgWords, color_list \in ArgColorLists :
          LET r == WordleGuess__init__(word, color_list)
          IN  /\ raised' = r.raised
              /\ result' = r.obj
              /\ call' = [op |-> "WordleGuess", args |-> <<word, color_list>>,
                           n |-> call.n + 1]
              /\ UNCHANGED <<remaining_word_list, guess_list, target,
                             word_list>>

NextGuess == WordInit \/ WordleGuessInit

SpecGuess == Init /\ [][NextGuess]_vars

----------------------------------------------------------------------------
(* SpecGame: a game with a hidden target word of the list; every guess is *)
(* submitted with the coloring the game gives it against the target.      *)

\* Step 3 of the coloring, from 0-based position i on: the positions not
\* marked Correct, left to right; left[x] is the number of occurrences of x
\* in the target that no earlier mark has consumed.
RECURSIVE SecondPass(_, _, _, _, _)
SecondPass(g, c, i, left, colors) ==
    IF i >= Len(g) THEN colors
    ELSE IF Item(g, i) = Item(c, i)
    THEN SecondPass(g, c, i + 1, left, colors)
    ELSE IF left[Item(g, i)] > 0
    THEN SecondPass(g, c, i + 1,
                    [left EXCEPT ![Item(g, i)] = @ - 1],
                    [colors EXCEPT ![i + 1] = YELLOW])
    ELSE SecondPass(g, c, i + 1, left, [colors EXCEPT ![i + 1] = GREY])

\* The coloring of guess word g against target word c: the first pass marks
\* the matching positions Correct and consumes their letters, the second pass
\* marks the rest.
CanonicalColoring(g, c) ==
    LET greens == {k \in DOMAIN g : g[k] = c[k]}
        left == [x \in Range(g) \cup Range(c) |->
                    Count(c, x) - Cardinality({k \in greens : g[k] = x})]
    IN  SecondPass(g, c, 0, left, [k \in DOMAIN g |-> GREEN])

InitGame ==
    /\ remaining_word_list = WORD_LIST
    /\ guess_list = <<>>
    /\ raised = "none"
    /\ result = None
    /\ call = [op |-> "WordleFilter", args |-> <<>>, n |-> 0]
    /\ target \in Range(WORD_LIST)
    /\ word_list = <<>>

\* add_guess of a word with the coloring the game gives it.
Play ==
    /\ call.n < MaxGuesses
    /\ \E w \in Words :
          add_guess(WordleGuess__init__(
                        w, CanonicalColoring(w.string, target)).obj)

NextGame == Play

SpecGame == InitGame /\ [][NextGame]_vars

----------------------------------------------------------------------------
(* SpecScore: a caller of WordleScorer holds a list of distinct Word        *)
(* objects and calls the module's functions on it.                          *)

\* The bound on the length of the scored list.
MaxWords == 4

\* The bound on the number of calls of one behaviour of SpecScore.
MaxCalls == 2

\* The strings of the Word objects of word_objects.pkl: a sample.
SCORE_WORDS ==
    { <<"b","a","t","c","h">>, <<"l","a","t","c","h">>,
      <<"p","a","t","c","h">>, <<"w","a","t","c","h">>,
      <<"s","i","l","l","y">>, <<"o","x","i","d","e">> }

\* The level that word_objects.pkl gives each word of the sample: 0 for a
\* common word.
WordLevel(s) ==
    CASE s = <<"l","a","t","c","h">> -> 1
      [] s = <<"o","x","i","d","e">> -> 2
      [] OTHER -> 0

\* The lists the caller can hold: up to MaxWords freshly built Word objects
\* of distinct strings, in any order.
ScoreInputs ==
    {[k \in DOMAIN s |-> Word__init__(s[k], WordLevel(s[k]), FALSE).obj] :
        s \in {s \in UNION {[1..n -> SCORE_WORDS] : n \in 0..MaxWords} :
                  \A i, j \in DOMAIN s : s[i] = s[j] => i = j}}

InitScore ==
    /\ remaining_word_list = WORD_LIST
    /\ guess_list = <<>>
    /\ raised = "none"
    /\ result = None
    /\ call = [op |-> "WordleFilter", args |-> <<>>, n |-> 0]
    /\ target = None
    /\ word_list \in ScoreInputs

\* score_words(word_list, use_entropy)
ScoreWords ==
    /\ call.n < MaxCalls
    /\ \E use_entropy \in BOOLEAN :
          LET r == WordleScorer_score_words(word_list, use_entropy)
          IN  /\ word_list' = r.list
              /\ raised' = r.raised
              /\ result' = None
              /\ call' = [op |-> "score_words", args |-> <<use_entropy>>,
                           n |-> call.n + 1]
              /\ UNCHANGED <<remaining_word_list, guess_list, target>>

\* _calculate_heuristic_score(word, tracker) with the default weights, on the
\* word at 0-based index i of the list and the tracker built from the list.
CalculateHeuristicScore ==
    /\ call.n < MaxCalls
    /\ \E i \in Range(PyRange(Len(word_list))) :
          LET t == WordleScorer_calculate_letter_frequency(word_list)
              word == WordleScorer_calculate_heuristic_score(
                          Item(word_list, i), t.obj,
                          INDEX_WEIGHT, OVERALL_WEIGHT)
          IN  /\ word_list' = [word_list EXCEPT ![i + 1] = word]
              /\ raised' = "none"
              /\ result' = None
              /\ call' = [op |-> "_calculate_heuristic_score",
                           args |-> <<i>>, n |-> call.n + 1]
              /\ UNCHANGED <<remaining_word_list, guess_list, target>>

\* sort_word_list_by_score(word_list)
SortWordListByScore ==
    /\ call.n < MaxCalls
    /\ word_list' = WordleScorer_sort_word_list_by_score(word_list)
    /\ raised' = "none"
    /\ result' = None
    /\ call' = [op |-> "sort_word_list_by_score", args |-> <<>>,
                 n |-> call.n + 1]
    /\ UNCHANGED <<remaining_word_list, guess_list, target>>

NextScore == ScoreWords \/ CalculateHeuristicScore \/ SortWordListByScore

SpecScore == InitScore /\ [][NextScore]_vars

----------------------------------------------------------------------------
(* SpecTracker: a caller of WordleScorer builds a LetterTracker from its   *)
(* list, reads counts from it, and takes the level-0 words of the list.    *)

\* The letters the caller asks the tracker about; z is in no word.
QueryLetters == {"a", "l", "t", "z"}

\* LetterTracker(word_list, LETTERS_IN_WORD)
LetterTrackerInit ==
    /\ call.n < MaxCalls
    /\ LET r == LetterTracker__init__(word_list, LETTERS_IN_WORD)
       IN  /\ raised' = r.raised
           /\ result' = r.obj
    /\ call' = [op |-> "LetterTracker", args |-> <<>>, n |-> call.n + 1]
    /\ UNCHANGED <<remaining_word_list, guess_list, target, word_list>>

\* tracker.get_letter_count(letter) and tracker.get_letter_count(letter,
\* index), on the tracker just built.
GetLetterCount ==
    /\ call.n < MaxCalls
    /\ result.type = "LetterTracker"
    /\ \E letter \in QueryLetters :
          \/ /\ result' = PyInt(LetterTracker_get_letter_count(result, letter))
             /\ call' = [op |-> "get_letter_count", args |-> <<letter>>,
                          n |-> call.n + 1]
          \/ \E index \in Range(PyRange(LETTERS_IN_WORD)) :
                /\ result' = PyInt(LetterTracker_get_letter_count_at(
                                       result, letter, index))
                /\ call' = [op |-> "get_letter_count",
                             args |-> <<letter, index>>, n |-> call.n + 1]
    /\ raised' = "none"
    /\ UNCHANGED <<remaining_word_list, guess_list, target, word_list>>

\* Fault variant of FilterLevelZeroWords: the words of other levels are
\* taken out of the caller's list.
FilterLevelZeroWordsInPlace ==
    /\ call.n < MaxCalls
    /\ word_list' = WordleScorer_filter_level_zero_words(word_list)
    /\ raised' = "none"
    /\ result' = [type |-> "list", ref |-> "word_list",
                  items |-> WordleScorer_filter_level_zero_words(word_list)]
    /\ call' = [op |-> "filter_level_zero_words", args |-> <<>>,
                 n |-> call.n + 1]
    /\ UNCHANGED <<remaining_word_list, guess_list, target>>

\* filter_level_zero_words(word_list): the caller gets a new list.
FilterLevelZeroWords ==
    /\ call.n < MaxCalls
    /\ raised' = "none"
    /\ result' = [type |-> "list", ref |-> "new",
                  items |-> WordleScorer_filter_level_zero_words(word_list)]
    /\ call' = [op |-> "filter_level_zero_words", args |-> <<>>,
                 n |-> call.n + 1]
    /\ UNCHANGED <<remaining_word_list, guess_list, target, word_list>>

NextTracker == LetterTrackerInit \/ GetLetterCount \/ FilterLevelZeroWords

SpecTracker == InitScore /\ [][NextTracker]_vars

----------------------------------------------------------------------------
(* SpecSession: one WordleFilter; the caller may submit a guess first, then *)
(* asks for the best guess and for the remaining words, and changes the     *)
(* list that get_remaining_words handed out.                                *)

\* get_best_guess(hashing)
GetBestGuess ==
    /\ call.n < MaxCalls
    /\ \E hashing \in BOOLEAN :
          LET r == WordleFilter_get_best_guess(hashing)
          IN  /\ raised' = r.raised
              /\ result' = r.obj
              /\ call' = [op |-> "get_best_guess", args |-> <<hashing>>,
                           n |-> call.n + 1]
              /\ UNCHANGED <<remaining_word_list, guess_list, target,
                             word_list>>

\* get_remaining_words()
GetRemainingWords ==
    /\ call.n < MaxCalls
    /\ raised' = "none"
    /\ result' = WordleFilter_get_remaining_words
    /\ call' = [op |-> "get_remaining_words", args |-> <<>>,
                 n |-> call.n + 1]
    /\ UNCHANGED <<remaining_word_list, guess_list, target, word_list>>

\* The caller calls pop() on the list that get_remaining_words returned: the
\* last element leaves the list object; on an empty list, IndexError.
ReturnedListPop ==
    /\ call.n < MaxCalls
    /\ result.type = "list"
    /\ result.ref = "self.remaining_word_list"
    /\ remaining_word_list' =
          IF remaining_word_list = <<>> THEN remaining_word_list
          ELSE SubSeq(remaining_word_list, 1, Len(remaining_word_list) - 1)
    /\ raised' = IF remaining_word_list = <<>> THEN "IndexError" ELSE "none"
    /\ call' = [op |-> "list.pop", args |-> <<>>, n |-> call.n + 1]
    /\ UNCHANGED <<guess_list, result, target, word_list>>

\* The caller calls clear() on the list that get_remaining_words returned.
ReturnedListClear ==
    /\ call.n < MaxCalls
    /\ result.type = "list"
    /\ result.ref = "self.remaining_word_list"
    /\ remaining_word_list' = <<>>
    /\ raised' = "none"
    /\ call' = [op |-> "list.clear", args |-> <<>>, n |-> call.n + 1]
    /\ UNCHANGED <<guess_list, result, target, word_list>>

NextSession ==
    \/ NewGuess
    \/ GetBestGuess
    \/ GetRemainingWords
    \/ ReturnedListPop
    \/ ReturnedListClear

SpecSession == Init /\ [][NextSession]_vars

----------------------------------------------------------------------------
(* Vocabulary of the properties *)

\* A step is a call of add_guess.
AddGuessStep == call'.n # call.n /\ call'.op = "add_guess"

\* The guess that the add_guess step is given.
StepGuess == call'.args[1]

\* The guessed word of a guess, as its letters.
GuessString(guess) == guess.word.string

\* a is an order-preserving sub-list of b.
RECURSIVE IsSubList(_, _)
IsSubList(a, b) ==
    IF a = <<>> THEN TRUE
    ELSE IF b = <<>> THEN FALSE
    ELSE IF Head(a) = Head(b) THEN IsSubList(Tail(a), Tail(b))
    ELSE IsSubList(a, Tail(b))

NoDuplicates(s) == \A i, j \in DOMAIN s : s[i] = s[j] => i = j

\* The candidates of lst whose coloring of the guess word equals the guess's
\* color list, in the order of lst.
CanonicalKeep(lst, guess) ==
    LET Same(c) == CanonicalColoring(GuessString(guess), c) = guess.color_list
    IN  SelectSeq(lst, Same)

\* The 0-based positions of a guess that carry a color.
Positions(guess, color) ==
    {i \in 0..(LETTERS_IN_WORD - 1) : guess.color_list[i + 1] = color}

----------------------------------------------------------------------------
(* C1 *)

\* C1 (as stated): after add_guess(F) the remaining list holds exactly the
\* previous candidates whose canonical coloring of the guess word equals F's
\* color list, in their previous order.
C1_FilterIsCanonical ==
    [][AddGuessStep =>
         remaining_word_list' = CanonicalKeep(remaining_word_list, StepGuess)]_vars

----------------------------------------------------------------------------
(* C2 *)

----------------------------------------------------------------------------
(* C3 *)

\* C3: monotonic shrink.  After every add_guess the remaining list is an
\* order-preserving sub-list of the list before: it is no longer, and it has
\* no duplicates if the list before had none.
C3_MonotonicShrink ==
    [][AddGuessStep =>
         /\ IsSubList(remaining_word_list', remaining_word_list)
         /\ Len(remaining_word_list') <= Len(remaining_word_list)
         /\ (NoDuplicates(remaining_word_list)
                => NoDuplicates(remaining_word_list'))]_vars

\* A guess has been applied and has removed some words, not all.
C3_Witness ==
    /\ guess_list # <<>>
    /\ raised = "none"
    /\ Len(remaining_word_list) > 1
    /\ Len(remaining_word_list) < Len(WORD_LIST)

----------------------------------------------------------------------------
(* C4 *)

\* C4 (as stated): full match.  When the guess word is in the candidate
\* list, which has no duplicates, and all five colors are GREEN, the
\* remaining list after add_guess is exactly that word.
C4_FullMatch ==
    [][(/\ AddGuessStep
        /\ Positions(StepGuess, GREEN) = 0..(LETTERS_IN_WORD - 1)
        /\ NoDuplicates(remaining_word_list)
        /\ GuessString(StepGuess) \in Range(remaining_word_list))
         => remaining_word_list' = <<GuessString(StepGuess)>>]_vars

----------------------------------------------------------------------------
(* C5 *)

\* The word has letter x at a position that the guess does not color GREEN.
HasOutsideGreen(word, guess, x) ==
    \E j \in 0..(LETTERS_IN_WORD - 1) :
        j \notin Positions(guess, GREEN) /\ Item(word, j) = x

\* C5 (as stated): the Absent verdict with green consumption.  add_guess
\* removes a candidate because of a GREY letter exactly when the candidate
\* has that letter at a position not colored GREEN: a survivor has no grey
\* letter outside the green positions (so none at the grey position, and
\* after an all-GREY guess no letter of the guess at all), and a candidate
\* that the green and yellow checks pass and that has its grey letters at
\* green positions only is kept.
C5_GreyWithGreenConsumption ==
    [][AddGuessStep =>
         LET g == StepGuess
             GreyHit(c) == \E q \in Positions(g, GREY) :
                               HasOutsideGreen(c, g, Item(GuessString(g), q))
         IN  /\ \A c \in Range(remaining_word_list') : ~GreyHit(c)
             /\ \A c \in Range(remaining_word_list) :
                   (/\ \A i \in Positions(g, GREEN) :
                          Item(c, i) = Item(GuessString(g), i)
                    /\ \A i \in Positions(g, YELLOW) :
                          /\ Item(GuessString(g), i) \in Range(c)
                          /\ Item(c, i) # Item(GuessString(g), i)
                    /\ ~GreyHit(c))
                      => c \in Range(remaining_word_list')]_vars

----------------------------------------------------------------------------
(* C6 *)

\* The number of positions of the guess where letter x has the color.
Marked(guess, x, color) ==
    Cardinality({i \in Positions(guess, color) : Item(GuessString(guess), i) = x})

\* C6 (as stated): repeated-letter multiplicity.  After add_guess every
\* survivor has each letter at least as often as the guess marks it GREEN or
\* YELLOW, and exactly that often when the guess also marks it GREY.
C6_Multiplicity ==
    [][AddGuessStep =>
         LET g == StepGuess
         IN  \A c \in Range(remaining_word_list'), x \in Range(GuessString(g)) :
                LET n == Marked(g, x, GREEN) + Marked(g, x, YELLOW)
                IN  /\ Count(c, x) >= n
                    /\ Marked(g, x, GREY) > 0 => Count(c, x) = n]_vars

----------------------------------------------------------------------------
(* C7 *)

\* The guess of the step is already in the history.
Resubmitted == \E k \in DOMAIN guess_list : guess_list[k] = StepGuess

\* C7: idempotence.  add_guess with a guess that is already in the history
\* leaves the remaining list as it is, whatever was submitted in between.
C7_Idempotent ==
    [][AddGuessStep /\ Resubmitted
         => remaining_word_list' = remaining_word_list]_vars

\* A guess that removed words has been submitted again after another guess.
C7_Witness ==
    /\ raised = "none"
    /\ Len(remaining_word_list) < Len(WORD_LIST)
    /\ \E i, j, k \in DOMAIN guess_list :
          /\ i < j /\ j < k /\ k = Len(guess_list)
          /\ guess_list[i] = guess_list[k]
          /\ guess_list[j] # guess_list[i]
          /\ guess_list[i].word.getitem

----------------------------------------------------------------------------
(* C8 *)

----------------------------------------------------------------------------
(* C9 *)

\* C9: the constructors check the lengths.  WordleGuess(word, color_list)
\* with a word or a color list whose length is not 5 raises ValueError and
\* builds nothing, and so does Word(word_str) with such a string, so no Word
\* of another length exists to build a guess from; a guess that is built has
\* the word and the color list it was given, neither cut nor padded.
C9_LengthChecked ==
    /\ (/\ call.op = "WordleGuess"
        /\ \/ Len(call.args[1].string) # LETTERS_IN_WORD
           \/ Len(call.args[2]) # LETTERS_IN_WORD)
          => raised = "ValueError" /\ result = None
    /\ (call.op = "Word" /\ Len(call.args[1].string) # LETTERS_IN_WORD)
          => raised = "ValueError" /\ result = None
    /\ result.type = "Word" => Len(result.string) = LETTERS_IN_WORD
    /\ result.type = "WordleGuess" =>
          /\ result.word = call.args[1]
          /\ result.color_list = call.args[2]
          /\ Len(result.word.string) = LETTERS_IN_WORD
          /\ Len(result.color_list) = LETTERS_IN_WORD

\* WordleGuess was called with a Word and a color list of another length.
C9_Witness ==
    /\ call.op = "WordleGuess"
    /\ call.args[1].type = "Word"
    /\ Len(call.args[2]) # LETTERS_IN_WORD
    /\ raised = "ValueError"
    /\ result = None

----------------------------------------------------------------------------
(* C10 *)

Increasing(s) == \A i, j \in DOMAIN s : i < j => s[i] < s[j]

----------------------------------------------------------------------------
(* Vocabulary of the scoring properties *)

\* A step is a call of the operation op.
CallStep(op) == call'.n # call.n /\ call'.op = op

\* A step is a call of score_words with the heuristic method.
HeuristicPassStep == CallStep("score_words") /\ call'.args[1] = FALSE

\* The strings of a list of Word objects, in list order.
Strings(lst) == [k \in DOMAIN lst |-> lst[k].string]

RECURSIVE SumSeq(_)
SumSeq(s) == IF s = <<>> THEN 0 ELSE Head(s) + SumSeq(Tail(s))

\* The number of words of lst with letter x at the 0-based position i.
PositionCount(lst, x, i) ==
    Cardinality({k \in DOMAIN lst : Item(lst[k].string, i) = x})

\* The number of occurrences of letter x in the words of lst.
AggregateCount(lst, x) ==
    SumSeq([k \in DOMAIN lst |-> Count(lst[k].string, x)])

\* The raw heuristic score of the word string w over the list lst.
RawScore(lst, w, W_pos, W_all) ==
    SumSeq([k \in DOMAIN w |->
               PositionCount(lst, w[k], k - 1) * W_pos
               + (IF Count(w, w[k]) = 1
                  THEN AggregateCount(lst, w[k]) * W_all ELSE 0)])

\* The raw scores of the words of lst are all equal.
RawScoresEqual(lst) ==
    \A i, j \in DOMAIN lst :
        RawScore(lst, lst[i].string, INDEX_WEIGHT, OVERALL_WEIGHT)
            = RawScore(lst, lst[j].string, INDEX_WEIGHT, OVERALL_WEIGHT)

----------------------------------------------------------------------------
(* C11 *)

\* C11 (as stated): scoring bounds.  After score_words with the heuristic
\* method on a non-empty list, the score of every word of the list is an
\* integer from 0 to 99.
C11_ScoresInBand ==
    [][HeuristicPassStep /\ word_list # <<>> =>
         \A k \in DOMAIN word_list' : word_list'[k].score \in 0..99]_vars


----------------------------------------------------------------------------
(* C12 *)

\* C12 (as stated): degenerate normalization.  When the raw scores of the
\* words of a non-empty list are all equal, score_words with the heuristic
\* method raises nothing and leaves every word with one and the same score.
C12_DegenerateNormalization ==
    [][HeuristicPassStep /\ word_list # <<>> /\ RawScoresEqual(word_list) =>
         /\ raised' = "none"
         /\ \A i, j \in DOMAIN word_list' :
               word_list'[i].score = word_list'[j].score]_vars


----------------------------------------------------------------------------
(* C13 *)

\* The place of the word of string s in a list of words of distinct strings.
IndexOf(lst, s) == CHOOSE k \in DOMAIN lst : lst[k].string = s

\* The scores of lst do not increase along the list.
NonIncreasing(lst) ==
    \A i, j \in DOMAIN lst : i < j => lst[i].score >= lst[j].score

\* Words of equal score in the list after are in the order they have in the
\* list before.
TiesKeepOrder(before, after) ==
    \A i, j \in DOMAIN after :
        i < j /\ after[i].score = after[j].score =>
            IndexOf(before, after[i].string) < IndexOf(before, after[j].string)

\* C13: after score_words with the heuristic method the list holds the same
\* words in non-increasing order of score, words of equal score in the order
\* they had before the call; so the first word is, of the words of highest
\* score, the one that came first before the call.
C13_RankedStable ==
    [][HeuristicPassStep =>
         /\ Len(word_list') = Len(word_list)
         /\ Range(Strings(word_list')) = Range(Strings(word_list))
         /\ NonIncreasing(word_list')
         /\ TiesKeepOrder(word_list, word_list')
         /\ word_list' # <<>> =>
               \A k \in DOMAIN word_list' :
                   \/ word_list'[k].score < word_list'[1].score
                   \/ IndexOf(word_list, word_list'[1].string)
                          <= IndexOf(word_list, word_list'[k].string)]_vars

\* A heuristic pass has returned a list with two words of equal score in
\* front of a word of lower score, the tied words not in alphabetical order.
C13_Witness ==
    /\ call.op = "score_words" /\ call.args[1] = FALSE
    /\ raised = "none"
    /\ Len(word_list) >= 3
    /\ word_list[1].score = word_list[2].score
    /\ word_list[2].score > word_list[Len(word_list)].score
    /\ word_list[1].string = <<"p","a","t","c","h">>
    /\ word_list[2].string = <<"b","a","t","c","h">>


----------------------------------------------------------------------------
(* C14 *)

\* The candidate strings of lst as words for the scoring vocabulary.
AsWords(lst) == [k \in DOMAIN lst |-> [string |-> lst[k]]]

\* The earliest candidate of the non-empty list lst of raw heuristic score
\* not below the score of any candidate.
HeuristicTop(lst, W_pos, W_all) ==
    LET Raw(k) == RawScore(AsWords(lst), lst[k], W_pos, W_all)
        top == CHOOSE k \in DOMAIN lst :
                   /\ \A j \in DOMAIN lst : Raw(j) <= Raw(k)
                   /\ \A j \in DOMAIN lst : j < k => Raw(j) < Raw(k)
    IN  lst[top]

\* C14 (as stated): get_best_guess() on a non-empty candidate list returns
\* the earliest candidate of highest raw heuristic score, with the weights 5
\* and 1 of the scorer or with the weights 3 and 1 of the session.
C14_BestGuessIsHeuristicTop ==
    [][CallStep("get_best_guess") /\ call'.args[1] = TRUE
         /\ remaining_word_list # <<>> =>
         /\ raised' = "none"
         /\ \/ result' = PyStr(HeuristicTop(remaining_word_list,
                                            INDEX_WEIGHT, OVERALL_WEIGHT))
            \/ result' = PyStr(HeuristicTop(remaining_word_list,
                                            POSITION_FREQUENCY_WEIGHT,
                                            GENERAL_FREQUENCY_WEIGHT))]_vars


----------------------------------------------------------------------------
(* C15 *)

\* C15 (as stated): a call that selects the entropy method,
\* score_words(use_entropy=True) or get_best_guess(hashing=False), raises
\* NotImplementedError and changes no score and no list.
C15_EntropyNotImplemented ==
    [][\/ CallStep("score_words") /\ call'.args[1] = TRUE
       \/ CallStep("get_best_guess") /\ call'.args[1] = FALSE
       =>
         /\ raised' = "NotImplementedError"
         /\ word_list' = word_list
         /\ remaining_word_list' = remaining_word_list]_vars

----------------------------------------------------------------------------
(* C16 *)

----------------------------------------------------------------------------
(* C17 *)

\* A step is a change that the caller makes to the list it got from
\* get_remaining_words.
ReturnedListStep == CallStep("list.pop") \/ CallStep("list.clear")

\* C17 (as stated): a change the caller makes to the list returned by
\* get_remaining_words leaves the session's candidate list as it is, and
\* get_remaining_words itself changes neither the candidate list nor the
\* guess history.
C17_ReadOnlyView ==
    [][/\ ReturnedListStep => remaining_word_list' = remaining_word_list
       /\ CallStep("get_remaining_words") =>
             /\ remaining_word_list' = remaining_word_list
             /\ guess_list' = guess_list]_vars


----------------------------------------------------------------------------
(* C18 *)

\* str.lower() on the letters of the word of the test.
LowerLetter(c) ==
    CASE c = "R" -> "r" [] c = "A" -> "a" [] c = "T" -> "t"
      [] c = "I" -> "i" [] c = "O" -> "o" [] OTHER -> c
Lower(s) == [k \in DOMAIN s |-> LowerLetter(s[k])]

\* C18 (as stated): WordleGuess built from the upper-case word RATIO and
\* five colors raises nothing; the guess holds the word in lower case and
\* the colors it was given.
C18_UpperCaseAccepted ==
    [][CallStep("WordleGuess") /\ call'.args[1].string = RATIO
         /\ Len(call'.args[2]) = LETTERS_IN_WORD =>
         /\ raised' = "none"
         /\ result'.type = "WordleGuess"
         /\ result'.word.string = Lower(RATIO)
         /\ result'.color_list = call'.args[2]]_vars


----------------------------------------------------------------------------
(* C19 *)

\* The integers nearest to num / den, den > 0: two of them at a half.
NearestIntegers(num, den) ==
    {q \in {num \div den, num \div den + 1} :
        /\ 2 * (num - q * den) <= den
        /\ 2 * (q * den - num) <= den}

\* The raw scores of the words of lst with the default weights.
RawScores(lst) ==
    {RawScore(lst, lst[k].string, INDEX_WEIGHT, OVERALL_WEIGHT) :
        k \in DOMAIN lst}

SetMin(S) == CHOOSE m \in S : \A x \in S : m <= x
SetMax(S) == CHOOSE m \in S : \A x \in S : m >= x

\* C19 (as stated): normalization formula.  After score_words with the
\* heuristic method on a list whose raw scores are not all equal, the score
\* of each word is (raw - min_raw) / (max_raw - min_raw) * 99, rounded to a
\* nearest integer and clamped to 0..99: 0 for a word of the lowest raw
\* score and 99 for a word of the highest.
C19_NormalizationFormula ==
    [][HeuristicPassStep /\ word_list # <<>> /\ ~RawScoresEqual(word_list) =>
         LET min_raw == SetMin(RawScores(word_list))
             max_raw == SetMax(RawScores(word_list))
         IN  \A k \in DOMAIN word_list' :
                LET raw == RawScore(word_list, word_list'[k].string,
                                    INDEX_WEIGHT, OVERALL_WEIGHT)
                IN  /\ \E q \in NearestIntegers((raw - min_raw) * 99,
                                                max_raw - min_raw) :
                          word_list'[k].score = PyMax(0, PyMin(q, 99))
                    /\ raw = min_raw => word_list'[k].score = 0
                    /\ raw = max_raw => word_list'[k].score = 99]_vars


----------------------------------------------------------------------------
(* C20 *)

\* C20: raw heuristic score.  _calculate_heuristic_score with the default
\* weights, on a word of the list and the tracker built from the list, sets
\* the word's score to the sum over the positions i of
\* 5 * (number of words with the word's letter at i), plus, at the positions
\* whose letter occurs once in the word, 1 * (number of occurrences of the
\* letter in the list); a letter that occurs twice or more in the word adds
\* no such term.  Nothing else changes.
C20_RawHeuristicScore ==
    [][CallStep("_calculate_heuristic_score") =>
         LET k == call'.args[1] + 1
             raw == RawScore(word_list, word_list[k].string, 5, 1)
         IN  word_list' = [word_list EXCEPT ![k].score = raw]]_vars

\* _calculate_heuristic_score has scored silly, whose letter l occurs twice,
\* in a list that also holds latch.
C20_Witness ==
    /\ call.op = "_calculate_heuristic_score"
    /\ word_list[call.args[1] + 1].string = <<"s","i","l","l","y">>
    /\ word_list[call.args[1] + 1].score > 0
    /\ \E k \in DOMAIN word_list : word_list[k].string = <<"l","a","t","c","h">>


----------------------------------------------------------------------------
(* C21 *)

\* The sum of the values of a function of finite domain.
RECURSIVE FunSum(_)
FunSum(f) ==
    IF DOMAIN f = {} THEN 0
    ELSE LET x == CHOOSE x \in DOMAIN f : TRUE
         IN  f[x] + FunSum([y \in DOMAIN f \ {x} |-> f[y]])

\* C21: LetterTracker counts.  For the tracker built from a list,
\* get_letter_count(x, i) is the number of words of the list with letter x
\* at position i, get_letter_count(x) is the sum of get_letter_count(x, i)
\* over the five positions, and the aggregate counts of all letters sum to
\* 5 times the number of words; a count read from the tracker is that
\* number.
C21_TrackerCounts ==
    [][/\ CallStep("LetterTracker") =>
             LET At(x, i) == LetterTracker_get_letter_count_at(result', x, i)
                 All(x) == LetterTracker_get_letter_count(result', x)
             IN  /\ result'.type = "LetterTracker"
                 /\ \A x \in ascii_lowercase :
                       /\ \A i \in 0..4 :
                             At(x, i) = PositionCount(word_list, x, i)
                       /\ All(x) = At(x, 0) + At(x, 1) + At(x, 2)
                                   + At(x, 3) + At(x, 4)
                 /\ FunSum([x \in ascii_lowercase |-> All(x)])
                       = 5 * Len(word_list)
       /\ CallStep("get_letter_count") =>
             LET x == call'.args[1]
             IN  result'.value =
                     IF Len(call'.args) = 2
                     THEN PositionCount(word_list, x, call'.args[2])
                     ELSE SumSeq([i \in 1..5 |->
                                     PositionCount(word_list, x, i - 1)])]_vars

\* A tracker has been built from a list that holds the letter l three times
\* and the letter a twice or more at position 1.
C21_Witness ==
    /\ call.op = "LetterTracker"
    /\ result.type = "LetterTracker"
    /\ LetterTracker_get_letter_count(result, "l") = 3
    /\ LetterTracker_get_letter_count_at(result, "a", 1) >= 2

----------------------------------------------------------------------------
(* C22 *)

\* C22: filter_level_zero_words returns a new list that holds exactly the
\* words of level 0 of the input list, in input order, and changes neither
\* the input list nor the session's candidate list.
C22_LevelZeroFilter ==
    [][CallStep("filter_level_zero_words") =>
         /\ result'.type = "list"
         /\ result'.ref = "new"
         /\ IsSubList(result'.items, word_list)
         /\ \A k \in DOMAIN word_list :
               word_list[k].level = 0 <=> word_list[k] \in Range(result'.items)
         /\ word_list' = word_list
         /\ remaining_word_list' = remaining_word_list]_vars

\* filter_level_zero_words has returned two or more words of a list that
\* also holds a word of another level.
C22_Witness ==
    /\ call.op = "filter_level_zero_words"
    /\ result.type = "list"
    /\ Len(result.items) >= 2
    /\ Len(result.items) < Len(word_list)


----------------------------------------------------------------------------
(* C23 *)

\* The filter pass for the guess keeps the word when the word is the only
\* candidate.
KeptAlone(word, guess) ==
    WordleFilter_filter_word_list(<<word>>, guess).list = <<word>>

----------------------------------------------------------------------------
(* C24 *)

\* The letters of the guess word are pairwise distinct.
DistinctLetters(guess) == NoDuplicates(GuessString(guess))

\* C24 (as stated): for a guess word of five distinct letters and any color
\* list, add_guess keeps the same set of candidates as the rule that
\* recomputes the coloring of the guess word against each candidate and
\* compares it with the color list.
C24_DistinctLettersCanonical ==
    [][AddGuessStep /\ DistinctLetters(StepGuess) =>
         Range(remaining_word_list')
             = Range(CanonicalKeep(remaining_word_list, StepGuess))]_vars


----------------------------------------------------------------------------
(* SpecPair: one WordleFilter receives two feedbacks: any guess, then a   *)
(* guess colored as the game colors it against a word of the list.        *)

\* The number of words of the list that serve as the hidden word of the
\* second feedback.
MaxTargets == 3

\* The feedbacks of the second call: a word of the list with the coloring
\* the game gives it against one of the first MaxTargets words of the list.
GameGuesses ==
    {WordleGuess__init__(w, CanonicalColoring(w.string, WORD_LIST[t])).obj :
        w \in Words, t \in 1..MaxTargets}

\* The second add_guess of the session.
SecondGuess ==
    /\ call.n = 1
    /\ \E g \in GameGuesses : add_guess(g)

NextPair == NewGuess \/ SecondGuess

SpecPair == Init /\ [][NextPair]_vars

----------------------------------------------------------------------------
(* C25 *)

\* The list that two add_guess calls leave, first, then second, from the
\* list lst.
AfterBoth(lst, first, second) ==
    WordleFilter_filter_word_list(
        WordleFilter_filter_word_list(lst, first).list, second).list

\* C25: order independence of feedback.  When the second add_guess of a
\* session returns, the remaining list is the list that the same two
\* feedbacks leave when submitted in the other order (same words, same
\* order), and it is the sub-list of the starting list made of the words
\* that each of the two feedbacks keeps on its own.
C25_OrderIndependence ==
    [][AddGuessStep /\ call.n = 1 =>
         LET F1 == guess_list[1]
             F2 == StepGuess
             KeptByBoth(word) == KeptAlone(word, F1) /\ KeptAlone(word, F2)
         IN  /\ remaining_word_list' = AfterBoth(WORD_LIST, F1, F2)
             /\ remaining_word_list' = AfterBoth(WORD_LIST, F2, F1)
             /\ remaining_word_list' = SelectSeq(WORD_LIST, KeptByBoth)]_vars

\* Two different feedbacks have been applied, neither raised at the second
\* call, each of them removes a word that the other keeps, and at least two
\* words remain.
C25_Witness ==
    /\ call.op = "add_guess"
    /\ call.n = 2
    /\ raised = "none"
    /\ Len(guess_list) = 2
    /\ guess_list[1].word.getitem
    /\ guess_list[2].word.getitem
    /\ Len(remaining_word_list) >= 2
    /\ \E word \in Range(WORD_LIST) :
          KeptAlone(word, guess_list[1]) /\ ~KeptAlone(word, guess_list[2])
    /\ \E word \in Range(WORD_LIST) :
          KeptAlone(word, guess_list[2]) /\ ~KeptAlone(word, guess_list[1])


----------------------------------------------------------------------------
(* C26 *)

\* C26 (as stated): normalization keeps the ranking meaningful.  After
\* score_words with the heuristic method on a list whose raw scores are not
\* all equal, the first word of the list has the highest raw score of the
\* list, and a word of the highest raw score and a word of the lowest raw
\* score have different scores.
C26_RankingMeaningful ==
    [][HeuristicPassStep /\ word_list # <<>> /\ ~RawScoresEqual(word_list) =>
         LET Raw(k) == RawScore(word_list, word_list'[k].string,
                                INDEX_WEIGHT, OVERALL_WEIGHT)
             min_raw == SetMin(RawScores(word_list))
             max_raw == SetMax(RawScores(word_list))
         IN  /\ Raw(1) = max_raw
             /\ \A i, j \in DOMAIN word_list' :
                   Raw(i) = max_raw /\ Raw(j) = min_raw =>
                       word_list'[i].score # word_list'[j].score]_vars

====
